---- MODULE Spec2Model ----
(***************************************************************************)
(* The conversation simulation engine of the gym lead-qualification        *)
(* simulator: simulator.py (call_llm, extract_intent_detection,            *)
(* assess_conversation_status, run_single_conversation,                    *)
(* run_simulation_batch) over the data model of models.py.                 *)
(*                                                                         *)
(* Spec is one run of run_single_conversation, SpecExtract one call of     *)
(* extract_intent_detection on any text, SpecBatch one run of              *)
(* run_simulation_batch, SpecBatchRun a batch around one conversation      *)
(* followed step by step, SpecAssess one call of                           *)
(* assess_conversation_status, SpecPersist save_logs and the reading back, *)
(* SpecSession the human chat session of app.py.                           *)
(*                                                                         *)
(* Texts (LLM replies, message contents) are sequences of tokens; a token  *)
(* is a record with a field t naming its kind.  The LLM client is the      *)
(* environment: every call either raises or returns a response.            *)
(***************************************************************************)
EXTENDS Integers, Sequences, FiniteSets, TLC

\* Largest config.max_message_exchanges explored.
MaxLimit == 2

\* Python's None.
None == "None"

---------------------------------------------------------------------------
(* models.py *)

AGREED_FREE_CLASS == "agreed_to_free_class"
NOT_INTERESTED == "not_interested"
REACHED_MESSAGE_LIMIT == "reached_message_limit"

ConversationOutcome == {AGREED_FREE_CLASS, NOT_INTERESTED, REACHED_MESSAGE_LIMIT}

Intent ==
    {"weight_loss", "stress_relief_mental_health", "learn_boxing_technique",
     "general_fitness", "social_community", "just_wants_free_class"}

\* SimulationConfig.max_message_exchanges: an int field without range validation.
ConfigLimits == {0 - 1} \cup (0 .. MaxLimit)

---------------------------------------------------------------------------
(* Texts *)

Tok(s) == [t |-> s]

\* A response whose message.content is null.
NoneText == <<Tok(None)>>

\* Ordinary chat text (no braces, no label, no fence).
Prose == <<Tok("prose")>>

\* The text call_llm returns when the client raises: "[Error: ...]".
ErrorMarker == <<Tok("[Error]")>>

\* The fixed opening of run_single_conversation.
sales_opening == <<Tok("sales_opening")>>

\* The fixed request of the final extraction call.
intent_request_message == <<Tok("intent_request")>>

create_sales_prompt == <<Tok("sales_system")>>

create_prospect_prompt(profile_intent) == <<[t |-> "prospect_system", true_intent |-> profile_intent]>>

LABEL == Tok("INTENT_DETECTION:")
LBRACE == Tok("{")
RBRACE == Tok("}")
\* The three-backquote markdown fence.
FENCE == Tok("fence")
JSONWORD == Tok("json")

\* Positions of token k in text s.
Positions(s, k) == {i \in 1 .. Len(s) : s[i] = k}

Min(S) == CHOOSE x \in S : \A y \in S : x <= y
Max(S) == CHOOSE x \in S : \A y \in S : x >= y

\* The environment's answers to client.chat.completions.create.
Exception == [kind |-> "exception"]
Response(content, tokens) == [kind |-> "response", content |-> content, tokens |-> tokens]

---------------------------------------------------------------------------
(* call_llm *)

\* Mutant of call_llm: the except branch returns (None, 0) instead of the marker.
call_llm_returns_none(raw) ==
    IF raw.kind = "exception"
    THEN [content |-> NoneText, tokens |-> 0]
    ELSE [content |-> raw.content, tokens |-> raw.tokens]

\* Mutant of call_llm: the except branch reports one token for the failed call.
call_llm_charges_failure(raw) ==
    IF raw.kind = "exception"
    THEN [content |-> ErrorMarker, tokens |-> 1]
    ELSE [content |-> raw.content, tokens |-> raw.tokens]

\* call_llm: (content, tokens) of a response; the error marker and 0 tokens
\* when the client raises.
call_llm(raw) ==
    IF raw.kind = "exception"
    THEN [content |-> ErrorMarker, tokens |-> 0]
    ELSE [content |-> raw.content, tokens |-> raw.tokens]

\* ConversationMessage(role, content, tokens_used): pydantic rejects a content
\* that is not a str.
MessageIsValid(content) == content # NoneText

ConversationMessage(role, content, tokens) ==
    [role |-> role, content |-> content, tokens_used |-> tokens]

---------------------------------------------------------------------------
(* assess_conversation_status *)

\* An assessor reply body: a JSON value.  kind "object" carries the members
\* should_end and outcome ("absent" when the key is missing); kind "array"
\* is valid JSON that is not an object.
Json(kind, se, oc) == [t |-> "json_value", kind |-> kind, should_end |-> se, outcome |-> oc]

\* Python truthiness of the should_end value (a JSON boolean).
Truthy(v) == v = "true"

\* Positions where a fence directly followed by the word json starts.
JsonFencePositions(s) == {i \in 1 .. Len(s) - 1 : s[i] = FENCE /\ s[i + 1] = JSONWORD}

\* text.split(sep)[1].split(fence)[0], the separator ending at position e:
\* the tokens after e up to the next fence (or the end).
UpToNextFence(s, e) ==
    LET later == {i \in Positions(s, FENCE) : i > e}
        stop == IF later = {} THEN Len(s) + 1 ELSE Min(later)
    IN SubSeq(s, e + 1, stop - 1)

\* Mutant of StripFences: only a fence marked json is removed.
StripFencesMarkedJsonOnly(s) ==
    IF JsonFencePositions(s) # {}
    THEN UpToNextFence(s, Min(JsonFencePositions(s)) + 1)
    ELSE s

\* The fence handling before json.loads.
StripFences(s) ==
    IF JsonFencePositions(s) # {}
    THEN UpToNextFence(s, Min(JsonFencePositions(s)) + 1)
    ELSE IF Positions(s, FENCE) # {}
         THEN UpToNextFence(s, Min(Positions(s, FENCE)))
         ELSE s

\* json.loads succeeds on exactly one JSON value.
JsonLoads(s) == IF Len(s) = 1 /\ s[1].t = "json_value" THEN s[1] ELSE [t |-> "error"]

\* Mutant of MapOutcome: every tag of the enumeration is mapped.
MapOutcomeAnyTag(outcome_str) ==
    IF outcome_str \in ConversationOutcome THEN outcome_str ELSE None

\* The outcome string -> ConversationOutcome mapping.
MapOutcome(outcome_str) ==
    IF outcome_str = "agreed_to_free_class" THEN AGREED_FREE_CLASS
    ELSE IF outcome_str = "not_interested" THEN NOT_INTERESTED
    ELSE None

\* Mutant of AssessDefault: the except branch fails closed.
AssessDefaultFailsClosed == [should_end |-> "true", outcome |-> NOT_INTERESTED, failed |-> TRUE]

\* The except branch: return False, None.
AssessDefault == [should_end |-> "false", outcome |-> None, failed |-> TRUE]

\* (should_end, outcome) for the client's answer raw; failed records that the
\* except branch produced it.
assess_conversation_status(raw) ==
    IF raw.kind = "exception" \/ raw.content = NoneText
    THEN AssessDefault
    ELSE LET assessment == JsonLoads(StripFences(raw.content))
         IN IF assessment.t = "error" \/ assessment.kind # "object"
            THEN AssessDefault
            ELSE [should_end |-> IF assessment.should_end = "absent"
                                 THEN "false" ELSE assessment.should_end,
                  outcome |-> MapOutcome(IF assessment.outcome = "absent"
                                         THEN "continue" ELSE assessment.outcome),
                  failed |-> FALSE]

---------------------------------------------------------------------------
(* extract_intent_detection *)

\* The members of the INTENT_DETECTION object.  has is the set of keys present;
\* detected_intent is the comma-separated list as a sequence of names;
\* confidence_level is in tenths.
Members(has, di, cl, bt) ==
    [t |-> "members", has |-> has, detected_intent |-> di,
     confidence_level |-> cl, best_time_to_visit |-> bt]

NoDetection == [none |-> TRUE]

IntentDetection(intent, confidence, best_time) ==
    [detected_intent |-> intent, confidence_level |-> confidence,
     reasoning |-> "reasoning", best_time_to_visit |-> best_time]

\* Mutant of ConfidenceIsValid: the range of confidence_level is not validated.
ConfidenceIsAnyNumber(cl) == TRUE

\* confidence_level: float = Field(ge=0.0, le=1.0), in tenths.
ConfidenceIsValid(cl) == cl >= 0 /\ cl <= 10

\* str.strip() on the names the model writes with surrounding blanks.
Strip(name) ==
    CASE name = "general_fitness " -> "general_fitness"
      [] name = " weight_loss" -> "weight_loss"
      [] name = " unknown_goal" -> "unknown_goal"
      [] OTHER -> name

\* Mutant of FirstIntent: a list is not split, the whole string is looked up.
FirstIntentUnsplit(di) == IF Len(di) = 1 THEN Strip(di[1]) ELSE "comma_separated_list"

\* detected_intent_str: the stripped field, cut at its first comma and
\* stripped again.
FirstIntent(di) == Strip(di[1])

\* The record built from the decoded object data, or NoDetection where the
\* code raises (missing key, unknown intent, confidence outside [0,1]).
DecodeDetection(data) ==
    IF ~({"detected_intent", "confidence_level", "reasoning"} \subseteq data.has)
    THEN NoDetection
    ELSE IF Len(data.detected_intent) = 0 \/ FirstIntent(data.detected_intent) \notin Intent
    THEN NoDetection
    ELSE IF ~ConfidenceIsValid(data.confidence_level)
    THEN NoDetection
    ELSE IntentDetection(FirstIntent(data.detected_intent), data.confidence_level,
                         IF "best_time_to_visit" \in data.has
                         THEN data.best_time_to_visit ELSE None)

\* json.loads of the slice [json_start, json_end): an object is "{" members "}".
LoadsObject(s) ==
    IF Len(s) = 3 /\ s[1] = LBRACE /\ s[2].t = "members" /\ s[3] = RBRACE
    THEN s[2]
    ELSE IF Len(s) = 2 /\ s[1] = LBRACE /\ s[2] = RBRACE
         THEN Members({}, <<>>, 0, None)
         ELSE [t |-> "error"]

extract_intent_detection(sales_final_message) ==
    IF sales_final_message = NoneText THEN NoDetection
    ELSE IF Positions(sales_final_message, LABEL) = {} THEN NoDetection
    ELSE IF Positions(sales_final_message, LBRACE) = {} THEN NoDetection
    ELSE LET json_start == Min(Positions(sales_final_message, LBRACE))
             json_end == IF Positions(sales_final_message, RBRACE) = {}
                         THEN 0 ELSE Max(Positions(sales_final_message, RBRACE))
         IN IF json_end < json_start THEN NoDetection
            ELSE LET data == LoadsObject(SubSeq(sales_final_message, json_start, json_end))
                 IN IF data.t = "error" THEN NoDetection ELSE DecodeDetection(data)

---------------------------------------------------------------------------
(* The environment: what the LLM client may answer *)

\* usage.total_tokens of a response.
TokenCounts == {1, 2}

\* Answers to a sales or prospect turn.
GatewayAnswers ==
    {Exception} \cup {Response(Prose, n) : n \in TokenCounts}
                \cup {Response(NoneText, n) : n \in TokenCounts}

\* Answers to the assessor's call.
AssessAnswers ==
    {Exception, Response(Prose, 1),
     Response(<<Json("array", "absent", "absent")>>, 1),
     Response(<<FENCE, JSONWORD, Json("object", "true", "agreed_to_free_class"), FENCE>>, 1),
     Response(<<Prose[1], FENCE, Json("object", "false", "continue"), FENCE>>, 1),
     Response(<<Json("object", "true", "agreed_to_free_class")>>, 1),
     Response(<<Json("object", "true", "not_interested")>>, 1),
     Response(<<Json("object", "false", "agreed_to_free_class")>>, 1),
     Response(<<Json("object", "true", "continue")>>, 1),
     Response(<<Json("object", "false", "continue")>>, 1),
     Response(<<Json("object", "absent", "absent")>>, 1),
     Response(<<Json("object", "true", "reached_message_limit")>>, 1)}

\* Answers to the final intent request.
IntentAnswers ==
    {Exception, Response(NoneText, 1), Response(Prose, 1),
     Response(<<LABEL, LBRACE, Members({"detected_intent", "confidence_level", "reasoning"},
                                       <<"weight_loss">>, 8, None)>>, 2),
     Response(<<LABEL, LBRACE, Members({"detected_intent", "confidence_level", "reasoning"},
                                       <<"unknown_goal">>, 8, None), RBRACE>>, 2)}
    \cup {Response(<<LABEL, LBRACE,
                     Members({"detected_intent", "confidence_level", "reasoning",
                              "best_time_to_visit"}, di, 8, "morning"), RBRACE>>, 2) :
            di \in {<<"weight_loss">>, <<"general_fitness", "weight_loss">>}}

---------------------------------------------------------------------------
(* run_single_conversation *)

VARIABLES
    max_message_exchanges,  \* config.max_message_exchanges
    true_intent,            \* profile.true_intent
    pc,                     \* position in run_single_conversation
    exchange,               \* the loop variable
    messages,
    sales_history,
    prospect_history,
    total_tokens,
    outcome,
    should_end,
    assessed_outcome,
    intent_request,         \* the message list of the final extraction call
    intent_response,
    intent_detection,
    conversation_log,
    gateway,                \* history: kind of the latest call_llm answer
    assess_answer,          \* history: the client's answer to the latest assessor call
    assess_calls,           \* history: assessor calls since the latest prospect turn
    assess_failed,          \* history: "none", or whether every / not every call so far failed
    terminal_verdicts,      \* history: assessor results that signalled termination
    outcome_writes,         \* history: assignments of a ConversationOutcome to outcome
    assess_continue,        \* history: "none", or whether every / not every call so far
                            \* returned no outcome ("continue")
    gateway_tokens,         \* history: the token count of every call_llm return, in order
    gateway_calls,          \* history: the purpose and the client's answer of every call_llm call
    extract_calls           \* history: calls of extract_intent_detection

\* The state of the other entry points, which run_single_conversation leaves alone.
VARIABLES
    sales_final_message,    \* extract_intent_detection: the argument
    extracted,              \* extract_intent_detection: the value returned
    extractor_pc,           \* "idle", "called", "returned"
    num_simulations,        \* config.num_simulations
    batch_pc,               \* position in run_simulation_batch
    sim_i,                  \* the loop variable i of run_simulation_batch
    conversation_id,
    logs,
    results,                \* history: how each conversation of the batch ended, in order
    assessor_body,          \* assess_conversation_status: the JSON value the reply carries
    assessor_reply,         \* assess_conversation_status: the reply text of the client
    assessed,               \* assess_conversation_status: the value returned
    assessor_pc,            \* "idle", "called", "returned"
    log_saved,              \* save_logs: the ConversationLog written
    persisted,              \* save_logs: the JSON data in the file
    log_loaded,             \* the ConversationLog parsed back from the file
    persist_pc              \* "idle", "saving", "saved", "loaded"

\* st.session_state of the human chat session (app.py).
VARIABLES
    session_messages,           \* st.session_state.messages
    session_sales_history,      \* st.session_state.sales_history
    conversation_started,
    conversation_ended,
    session_intent_detection,   \* st.session_state.intent_detection
    conversation_outcome,
    session_total_tokens,       \* st.session_state.total_tokens
    session_config,             \* st.session_state.config.max_message_exchanges
    session_event,              \* history: the handler that ran last
    session_assess_calls,       \* history: assessor calls since the latest reset
    session_sales_calls,        \* history: sales replies requested since the latest reset
    detect_intent_calls,        \* history: calls of detect_intent since the latest reset
    session_assessed            \* history: what the latest assessment returned

conversation_vars ==
    <<max_message_exchanges, true_intent, pc, exchange, messages, sales_history,
      prospect_history, total_tokens, outcome, should_end, assessed_outcome,
      intent_request, intent_response, intent_detection, conversation_log, gateway,
      assess_answer, assess_calls, assess_failed, terminal_verdicts, outcome_writes,
      assess_continue, gateway_tokens, gateway_calls, extract_calls>>

extractor_vars == <<sales_final_message, extracted, extractor_pc>>

batch_vars == <<num_simulations, batch_pc, sim_i, conversation_id, logs, results>>

assessor_vars == <<assessor_body, assessor_reply, assessed, assessor_pc>>

persist_vars == <<log_saved, persisted, log_loaded, persist_pc>>

session_vars ==
    <<session_messages, session_sales_history, conversation_started, conversation_ended,
      session_intent_detection, conversation_outcome, session_total_tokens, session_config,
      session_event, session_assess_calls, session_sales_calls, detect_intent_calls,
      session_assessed>>

vars ==
    <<conversation_vars, extractor_vars, batch_vars, assessor_vars, persist_vars,
      session_vars>>

history ==
    <<gateway, assess_answer, assess_calls, assess_failed, terminal_verdicts, outcome_writes,
      assess_continue, gateway_tokens, gateway_calls, extract_calls>>

NoLog == [none |-> TRUE]

\* Mutant of LoopRuns: the range is one iteration too long.
LoopRunsInclusive(e) == e <= max_message_exchanges

\* for exchange in range(config.max_message_exchanges)
LoopRuns(e) == e < max_message_exchanges

\* Mutant of SkipsSalesTurn: the sales turn is skipped in every exchange.
SkipsEverySalesTurn(e) == TRUE

\* Mutant of SkipsSalesTurn: the sales turn is never skipped.
SkipsNoSalesTurn(e) == FALSE

\* if exchange == 0: the opening stands for the sales turn
SkipsSalesTurn(e) == e = 0

\* Mutant of Terminates: only an agreement ends the loop.
TerminatesOnAgreementOnly(se, oc) == Truthy(se) /\ oc = AGREED_FREE_CLASS

\* if should_end and assessed_outcome
Terminates(se, oc) == Truthy(se) /\ oc # None

\* Mutant of AtLimit: the last exchange is taken to be one exchange earlier.
AtLimitOneEarly(e) == e >= max_message_exchanges - 2

\* if exchange >= config.max_message_exchanges - 1
AtLimit(e) == e >= max_message_exchanges - 1

\* Mutant of OutcomeAfterLoop: the default is assigned without the None test.
OutcomeAfterLoopOverwrites(oc) == REACHED_MESSAGE_LIMIT

\* if outcome is None: outcome = REACHED_MESSAGE_LIMIT
OutcomeAfterLoop(oc) == IF oc = None THEN REACHED_MESSAGE_LIMIT ELSE oc

\* Mutant of AddTokens: the latest count replaces the running total.
AddTokensOverwrites(total, tokens) == tokens

\* total_tokens += tokens
AddTokens(total, tokens) == total + tokens

\* Mutant of IntentRequest: the request is sent without the conversation.
IntentRequestWithoutHistory(history_so_far) ==
    <<[role |-> "user", content |-> intent_request_message]>>

\* intent_request = sales_history + [{"role": "user", "content": ...}]
IntentRequest(history_so_far) ==
    Append(history_so_far, [role |-> "user", content |-> intent_request_message])

\* Mutant of IntentMatch: any detection counts as a match.
IntentMatchWheneverDetected(det, profile_intent) == det # NoDetection

\* intent_match = False; if intent_detection: intent_match = (detected == true_intent)
IntentMatch(det, profile_intent) ==
    IF det # NoDetection THEN det.detected_intent = profile_intent ELSE FALSE

\* Mutant of TokensAfterAssess: the assessor's call is charged to the total.
TokensAfterAssessCharged(total, raw) ==
    IF raw.kind = "response" THEN total + raw.tokens ELSE total

\* should_end, assessed_outcome = assess_conversation_status(...): the usage of
\* the assessor's call is not returned and total_tokens is not touched.
TokensAfterAssess(total, raw) == total

\* Mutant of HistoryAfterIntentRequest: the request is appended in place.
HistoryAfterIntentRequestAppended(history_so_far) ==
    Append(history_so_far, [role |-> "user", content |-> intent_request_message])

\* intent_request = sales_history + [...]: a new list, sales_history as it was.
HistoryAfterIntentRequest(history_so_far) == history_so_far

\* Where iteration e of the loop starts, or the loop's exit.
LoopHead(e) ==
    IF LoopRuns(e)
    THEN IF SkipsSalesTurn(e) THEN "prospect_turn" ELSE "sales_turn"
    ELSE "after_loop"

\* Mutant of HistoryEntry: both histories give a message the same role.
HistoryEntrySameRole(owner, speaker, content) ==
    [role |-> IF speaker = "sales" THEN "assistant" ELSE "user", content |-> content]

\* The history entry a turn appends: sales sees its own turns as assistant and
\* the prospect's as user; the prospect sees the inverse.
HistoryEntry(owner, speaker, content) ==
    [role |-> IF owner = speaker THEN "assistant" ELSE "user", content |-> content]

\* extract_intent_detection and run_simulation_batch not called.
ExtractorIdle ==
    /\ sales_final_message = NoneText
    /\ extracted = NoDetection
    /\ extractor_pc = "idle"

BatchIdle ==
    /\ num_simulations = 0
    /\ batch_pc = "idle"
    /\ sim_i = 0
    /\ conversation_id = None
    /\ logs = <<>>
    /\ results = <<>>

\* assess_conversation_status not called on its own, save_logs not called.
AssessorIdle ==
    /\ assessor_body = Json("array", "absent", "absent")
    /\ assessor_reply = NoneText
    /\ assessed = AssessDefault
    /\ assessor_pc = "idle"

PersistIdle ==
    /\ log_saved = NoLog
    /\ persisted = NoLog
    /\ log_loaded = NoLog
    /\ persist_pc = "idle"

\* SimulationConfig(..., max_message_exchanges=10) of initialize_session_state.
SessionMaxMessageExchanges == 10

\* initialize_session_state() on an empty st.session_state.
InitialSessionState ==
    /\ session_messages = <<>>
    /\ session_sales_history = <<>>
    /\ conversation_started = FALSE
    /\ conversation_ended = FALSE
    /\ session_intent_detection = NoDetection
    /\ conversation_outcome = None
    /\ session_total_tokens = 0
    /\ session_config = SessionMaxMessageExchanges

\* The chat session not opened.
SessionIdle ==
    /\ InitialSessionState
    /\ session_event = "idle"
    /\ session_assess_calls = 0
    /\ session_sales_calls = 0
    /\ detect_intent_calls = 0
    /\ session_assessed = AssessDefault

OthersIdle == AssessorIdle /\ PersistIdle /\ SessionIdle

\* run_single_conversation(config, conversation_id) entered.
ConversationInit ==
    /\ max_message_exchanges \in ConfigLimits
    /\ true_intent = None
    /\ pc = "start"
    /\ exchange = 0
    /\ messages = <<>>
    /\ sales_history = <<>>
    /\ prospect_history = <<>>
    /\ total_tokens = 0
    /\ outcome = None
    /\ should_end = None
    /\ assessed_outcome = None
    /\ intent_request = <<>>
    /\ intent_response = NoneText
    /\ intent_detection = NoDetection
    /\ conversation_log = NoLog
    /\ gateway = "none"
    /\ assess_answer = [kind |-> "none"]
    /\ assess_calls = 0
    /\ assess_failed = "none"
    /\ terminal_verdicts = 0
    /\ outcome_writes = 0
    /\ assess_continue = "none"
    /\ gateway_tokens = <<>>
    /\ gateway_calls = <<>>
    /\ extract_calls = 0

Init == ConversationInit /\ ExtractorIdle /\ BatchIdle /\ OthersIdle

\* Profile draw, system prompts and the fixed opening, up to the loop.
Opening ==
    /\ pc = "start"
    /\ \E profile_intent \in Intent :
         /\ true_intent' = profile_intent
         /\ prospect_history' =
              <<[role |-> "system", content |-> create_prospect_prompt(profile_intent)],
                HistoryEntry("prospect", "sales", sales_opening)>>
    /\ sales_history' =
         <<[role |-> "system", content |-> create_sales_prompt],
           HistoryEntry("sales", "sales", sales_opening)>>
    /\ messages' = <<ConversationMessage("sales", sales_opening, 0)>>
    /\ total_tokens' = 0
    /\ outcome' = None
    /\ exchange' = 0
    /\ pc' = LoopHead(0)
    /\ UNCHANGED <<max_message_exchanges, should_end, assessed_outcome, intent_request,
                   intent_response, intent_detection, conversation_log, history>>
    /\ UNCHANGED <<extractor_vars, batch_vars, assessor_vars, persist_vars, session_vars>>

\* A sales or prospect turn: call_llm, the token total, the message, both histories.
Turn(speaker, raw, next_pc) ==
    LET r == call_llm(raw)
    IN /\ gateway' = raw.kind
       /\ gateway_tokens' = Append(gateway_tokens, r.tokens)
       /\ gateway_calls' = Append(gateway_calls, [purpose |-> speaker, answer |-> raw])
       /\ total_tokens' = AddTokens(total_tokens, r.tokens)
       /\ IF MessageIsValid(r.content)
          THEN /\ messages' = Append(messages, ConversationMessage(speaker, r.content, r.tokens))
               /\ sales_history' = Append(sales_history, HistoryEntry("sales", speaker, r.content))
               /\ prospect_history' =
                    Append(prospect_history, HistoryEntry("prospect", speaker, r.content))
               /\ pc' = next_pc
          ELSE /\ pc' = "raised"
               /\ UNCHANGED <<messages, sales_history, prospect_history>>

SalesTurn ==
    /\ pc = "sales_turn"
    /\ \E raw \in GatewayAnswers : Turn("sales", raw, "prospect_turn")
    /\ UNCHANGED <<max_message_exchanges, true_intent, exchange, outcome, should_end,
                   assessed_outcome, intent_request, intent_response, intent_detection,
                   conversation_log, assess_answer, assess_calls, assess_failed,
                   terminal_verdicts, outcome_writes, assess_continue, extract_calls>>
    /\ UNCHANGED <<extractor_vars, batch_vars, assessor_vars, persist_vars, session_vars>>

ProspectTurn ==
    /\ pc = "prospect_turn"
    /\ \E raw \in GatewayAnswers : Turn("prospect", raw, "assess")
    /\ assess_calls' = IF pc' = "assess" THEN 0 ELSE assess_calls
    /\ UNCHANGED <<max_message_exchanges, true_intent, exchange, outcome, should_end,
                   assessed_outcome, intent_request, intent_response, intent_detection,
                   conversation_log, assess_answer, assess_failed, terminal_verdicts,
                   outcome_writes, assess_continue, extract_calls>>
    /\ UNCHANGED <<extractor_vars, batch_vars, assessor_vars, persist_vars, session_vars>>

\* The history kept about one assessor call: the answer raw, the result a.
AssessHistory(raw, a) ==
    /\ assess_answer' = raw
    /\ assess_calls' = assess_calls + 1
    /\ assess_failed' = IF a.failed /\ assess_failed \in {"none", "every"}
                        THEN "every" ELSE "not_every"
    /\ terminal_verdicts' = terminal_verdicts + IF Terminates(a.should_end, a.outcome) THEN 1 ELSE 0
    /\ assess_continue' = IF a.outcome = None /\ assess_continue \in {"none", "every"}
                          THEN "every" ELSE "not_every"

\* The assessment after the prospect turn, and the limit test when it does not
\* end the conversation.
Assess ==
    /\ pc = "assess"
    /\ \E raw \in AssessAnswers :
         LET a == assess_conversation_status(raw)
         IN /\ should_end' = a.should_end
            /\ assessed_outcome' = a.outcome
            /\ total_tokens' = TokensAfterAssess(total_tokens, raw)
            /\ AssessHistory(raw, a)
            /\ IF Terminates(a.should_end, a.outcome)
               THEN /\ outcome' = a.outcome
                    /\ outcome_writes' = outcome_writes + 1
                    /\ pc' = "after_loop"
                    /\ exchange' = exchange
               ELSE /\ UNCHANGED <<outcome, outcome_writes>>
                    /\ IF AtLimit(exchange)
                       THEN pc' = "assess_final" /\ exchange' = exchange
                       ELSE pc' = LoopHead(exchange + 1) /\ exchange' = exchange + 1
    /\ UNCHANGED <<max_message_exchanges, true_intent, messages, sales_history,
                   prospect_history, intent_request, intent_response,
                   intent_detection, conversation_log, gateway, gateway_tokens,
                   gateway_calls, extract_calls>>
    /\ UNCHANGED <<extractor_vars, batch_vars, assessor_vars, persist_vars, session_vars>>

\* The last exchange: the prospect turn is assessed again, then the loop breaks.
AssessFinal ==
    /\ pc = "assess_final"
    /\ \E raw \in AssessAnswers :
         LET a == assess_conversation_status(raw)
         IN /\ should_end' = a.should_end
            /\ assessed_outcome' = a.outcome
            /\ total_tokens' = TokensAfterAssess(total_tokens, raw)
            /\ AssessHistory(raw, a)
            /\ outcome' = IF Terminates(a.should_end, a.outcome)
                          THEN a.outcome ELSE REACHED_MESSAGE_LIMIT
    /\ outcome_writes' = outcome_writes + 1
    /\ pc' = "after_loop"
    /\ UNCHANGED <<max_message_exchanges, true_intent, exchange, messages, sales_history,
                   prospect_history, intent_request, intent_response,
                   intent_detection, conversation_log, gateway, gateway_tokens,
                   gateway_calls, extract_calls>>
    /\ UNCHANGED <<extractor_vars, batch_vars, assessor_vars, persist_vars, session_vars>>

\* After the loop: the default outcome.
AfterLoop ==
    /\ pc = "after_loop"
    /\ outcome' = OutcomeAfterLoop(outcome)
    /\ outcome_writes' = IF outcome' # outcome THEN outcome_writes + 1 ELSE outcome_writes
    /\ pc' = "extract"
    /\ UNCHANGED <<max_message_exchanges, true_intent, exchange, messages, sales_history,
                   prospect_history, total_tokens, should_end, assessed_outcome,
                   intent_request, intent_response, intent_detection, conversation_log,
                   gateway, assess_answer, assess_calls, assess_failed, terminal_verdicts,
                   assess_continue, gateway_tokens, gateway_calls, extract_calls>>
    /\ UNCHANGED <<extractor_vars, batch_vars, assessor_vars, persist_vars, session_vars>>

\* ConversationLog(...): pydantic requires outcome to be a ConversationOutcome.
ConversationLog(det, match) ==
    [true_intent |-> true_intent,
     messages |-> messages,
     intent_detection |-> det,
     outcome |-> outcome,
     total_tokens_used |-> total_tokens',
     conversation_length |-> Cardinality({i \in 1 .. Len(messages) : messages[i].role = "sales"}),
     intent_match |-> match]

\* The intent request, extraction, intent_match and the log.
Extract ==
    /\ pc = "extract"
    /\ \E raw \in IntentAnswers :
         LET r == call_llm(raw)
             det == extract_intent_detection(r.content)
             match == IntentMatch(det, true_intent)
         IN /\ gateway' = raw.kind
            /\ gateway_tokens' = Append(gateway_tokens, r.tokens)
            /\ gateway_calls' = Append(gateway_calls, [purpose |-> "extraction", answer |-> raw])
            /\ intent_response' = r.content
            /\ total_tokens' = AddTokens(total_tokens, r.tokens)
            /\ intent_detection' = det
            /\ IF outcome \in ConversationOutcome
               THEN conversation_log' = ConversationLog(det, match) /\ pc' = "done"
               ELSE conversation_log' = conversation_log /\ pc' = "raised"
    /\ intent_request' = IntentRequest(sales_history)
    /\ sales_history' = HistoryAfterIntentRequest(sales_history)
    /\ extract_calls' = extract_calls + 1
    /\ UNCHANGED <<max_message_exchanges, true_intent, exchange, messages,
                   prospect_history, outcome, should_end, assessed_outcome, assess_answer,
                   assess_calls, assess_failed, terminal_verdicts, outcome_writes,
                   assess_continue>>
    /\ UNCHANGED <<extractor_vars, batch_vars, assessor_vars, persist_vars, session_vars>>

Next ==
    \/ Opening
    \/ SalesTurn
    \/ ProspectTurn
    \/ Assess
    \/ AssessFinal
    \/ AfterLoop
    \/ Extract

Spec == Init /\ [][Next]_vars

---------------------------------------------------------------------------
(* Properties of run_single_conversation *)

\* Completed exchanges: the prospect messages of a transcript.
ProspectCount(msgs) == Cardinality({i \in 1 .. Len(msgs) : msgs[i].role = "prospect"})

AssessPcs == {"assess", "assess_final"}

TerminalTags == {"agreed_to_free_class", "not_interested"}

\* The JSON objects an assessor answer carries (bare or inside a fence).
AnswerObjects(raw) ==
    IF raw.kind # "response" THEN {}
    ELSE {raw.content[i] : i \in {j \in 1 .. Len(raw.content) :
                                    /\ raw.content[j].t = "json_value"
                                    /\ raw.content[j].kind = "object"}}

\* The call raised, or the reply holds no JSON object to parse.
CallOrParseFailure(raw) == raw.kind # "none" /\ AnswerObjects(raw) = {}

C2_OutcomeAssignedOnce ==
    /\ [](outcome_writes <= 1)
    /\ [](pc = "extract" => outcome \in ConversationOutcome)
    /\ [](conversation_log # NoLog => conversation_log.outcome \in ConversationOutcome)
    /\ [][outcome # None => outcome' = outcome]_vars

C2_Witness ==
    /\ pc = "done"
    /\ outcome_writes = 1
    /\ terminal_verdicts = 1
    /\ conversation_log.outcome = AGREED_FREE_CLASS

\* C3: the transcript alternates sales, prospect, sales, ... and its first
\* message is the fixed opening with tokens_used = 0.
C3_AlternatesFromFixedOpening ==
    /\ \A i \in 1 .. Len(messages) :
         messages[i].role = IF i % 2 = 1 THEN "sales" ELSE "prospect"
    /\ pc # "start" =>
         /\ Len(messages) >= 1
         /\ messages[1] = [role |-> "sales", content |-> sales_opening, tokens_used |-> 0]

C3_Witness ==
    /\ Len(messages) >= 4
    /\ messages[2].content = ErrorMarker
    /\ messages[3].content = ErrorMarker
    /\ messages[4].content = Prose

\* C4: each completed prospect turn is assessed exactly once: no call before
\* the assessment step, one call from then on.
C4_OneAssessmentPerProspectTurn ==
    IF pc = "assess" THEN assess_calls = 0
    ELSE IF ProspectCount(messages) > 0 THEN assess_calls = 1
    ELSE assess_calls = 0

\* C5: once an assessment has not ended the conversation at the limit, the
\* conversation closes with reached_message_limit whatever a further
\* assessment returns.
C5_LimitIsHardCeiling ==
    (assess_calls = 2 /\ pc \in {"after_loop", "extract", "done"})
        => outcome = REACHED_MESSAGE_LIMIT

\* C6: an assessment returning (true, agreed_to_free_class or not_interested)
\* assigns that outcome and leaves the loop; from then on the transcript is
\* unchanged, no sales or prospect turn follows, and the log carries that
\* outcome and transcript.
C6_TerminalVerdictCloses ==
    /\ [][(/\ pc \in AssessPcs
           /\ pc' # pc
           /\ should_end' = "true"
           /\ assessed_outcome' \in {AGREED_FREE_CLASS, NOT_INTERESTED})
          => (outcome' = assessed_outcome' /\ pc' = "after_loop")]_vars
    /\ [][outcome # None
          => (/\ messages' = messages
              /\ outcome' = outcome
              /\ pc' \notin {"sales_turn", "prospect_turn"})]_vars
    /\ [](pc = "done" => (/\ conversation_log.outcome = outcome
                          /\ conversation_log.messages = messages))

C6_Witness ==
    /\ pc = "done"
    /\ max_message_exchanges = 2
    /\ conversation_log.outcome = NOT_INTERESTED
    /\ Len(conversation_log.messages) = 2

\* C7: after a reply with outcome agreed_to_free_class and should_end = false
\* no further turn is taken and the conversation closes with
\* agreed_to_free_class.
C7_CategoryWins ==
    assess_answer = Response(<<Json("object", "false", "agreed_to_free_class")>>, 1)
        => (/\ pc \notin {"sales_turn", "prospect_turn", "assess"}
            /\ outcome # None => outcome = AGREED_FREE_CLASS)

\* C8: an assessment whose reply names no terminal tag returns no outcome and
\* does not close the conversation: below the limit the next exchange starts,
\* at the limit only the limit closes it.
C8_ContinueNeverCloses ==
    [][(/\ pc \in AssessPcs
        /\ pc' # pc
        /\ AnswerObjects(assess_answer') # {}
        /\ \A o \in AnswerObjects(assess_answer') : o.outcome \notin TerminalTags)
       => (/\ assessed_outcome' = None
           /\ outcome' \notin {AGREED_FREE_CLASS, NOT_INTERESTED}
           /\ pc = "assess" =>
                /\ outcome' = None
                /\ IF exchange < max_message_exchanges - 1
                   THEN pc' = "sales_turn" /\ exchange' = exchange + 1
                   ELSE pc' = "assess_final"
           /\ pc = "assess_final" => outcome' = REACHED_MESSAGE_LIMIT)]_vars

C8_Witness ==
    /\ pc = "sales_turn"
    /\ exchange = 1
    /\ outcome = None
    /\ assess_answer = Response(<<Json("object", "true", "continue")>>, 1)

\* C9: a failed call or an unparsable reply makes the assessor return
\* (False, None) without raising; it does not close the conversation before
\* the limit; a conversation whose assessments all fail completes
\* max_message_exchanges exchanges and is logged with reached_message_limit.
C9_AssessorFailsOpen ==
    /\ [][(pc \in AssessPcs /\ pc' # pc /\ CallOrParseFailure(assess_answer'))
          => (/\ should_end' = "false"
              /\ assessed_outcome' = None
              /\ pc' # "raised"
              /\ pc = "assess" =>
                   /\ outcome' = None
                   /\ IF exchange < max_message_exchanges - 1
                      THEN pc' = "sales_turn" /\ exchange' = exchange + 1
                      ELSE pc' = "assess_final"
              /\ pc = "assess_final" => outcome' = REACHED_MESSAGE_LIMIT)]_vars
    /\ [](pc = "done" /\ assess_failed = "every"
          => (/\ ProspectCount(conversation_log.messages) = max_message_exchanges
              /\ conversation_log.outcome = REACHED_MESSAGE_LIMIT))

C9_Witness ==
    /\ pc = "done"
    /\ assess_failed = "every"
    /\ max_message_exchanges = 2
    /\ ProspectCount(conversation_log.messages) = 2
    /\ conversation_log.outcome = REACHED_MESSAGE_LIMIT

\* C10: a step whose gateway call raised goes on to the step that follows it
\* (the prospect turn, the assessment, the log), never out of the
\* conversation, and a finished conversation has a log with one of the three
\* outcomes.
C10_GatewayFailureNeverRaises ==
    /\ [][(pc \in {"sales_turn", "prospect_turn", "extract"} /\ pc' # pc
           /\ gateway' = "exception")
          => pc' = (CASE pc = "sales_turn" -> "prospect_turn"
                      [] pc = "prospect_turn" -> "assess"
                      [] OTHER -> "done")]_vars
    /\ [](pc = "raised" => gateway = "response")
    /\ [](pc = "done" => conversation_log.outcome \in ConversationOutcome)

C10_Witness ==
    /\ pc = "done"
    /\ gateway = "exception"
    /\ Len(conversation_log.messages) = 4
    /\ \A i \in 2 .. 4 : conversation_log.messages[i].content = ErrorMarker
    /\ conversation_log.outcome \in ConversationOutcome

\* The text contents of a message list, in order.
Contents(list) == [i \in 1 .. Len(list) |-> list[i].content]

\* The sales-side history holds the sales system prompt and then the whole
\* transcript.
FullSalesHistory(h, msgs) ==
    Contents(h) = <<create_sales_prompt>> \o Contents(msgs)

RECURSIVE SumSeq(_)
SumSeq(q) == IF q = <<>> THEN 0 ELSE q[1] + SumSeq(Tail(q))

\* C11: a gateway failure on a prospect turn appends the prospect message
\* (error marker, tokens_used = 0), leaves total_tokens unchanged and leads to
\* the assessment step; from there the next thing that happens is the
\* assessor call for that turn.
C11_FailedProspectTurnIsAssessed ==
    /\ [][(pc = "prospect_turn" /\ pc' # pc /\ gateway' = "exception")
          => (/\ messages' = Append(messages, [role |-> "prospect", content |-> ErrorMarker,
                                               tokens_used |-> 0])
              /\ total_tokens' = total_tokens
              /\ pc' = "assess"
              /\ assess_calls' = 0)]_vars
    /\ [][pc = "assess"
          => (/\ assess_calls' = assess_calls + 1
              /\ messages' = messages
              /\ total_tokens' = total_tokens)]_vars

C11_Witness ==
    /\ pc = "sales_turn"
    /\ Len(messages) = 2
    /\ messages[2] = [role |-> "prospect", content |-> ErrorMarker, tokens_used |-> 0]
    /\ gateway = "exception"
    /\ total_tokens = 0
    /\ assess_calls = 1

\* C12: the extraction step runs exactly once per finished conversation and
\* never before the loop has exited: it is taken from the point after the
\* loop, whatever the outcome, with the sales-side history (system prompt and
\* whole transcript) followed by the fixed request, and intent_detection is
\* the extractor's result on the reply; no IntentDetection exists before.
C12_ExtractionOnceAfterLoop ==
    /\ [](pc # "done" => (extract_calls = 0 /\ intent_detection = NoDetection))
    /\ [](pc = "done" => extract_calls = 1)
    /\ [][pc = "after_loop" => pc' = "extract"]_vars
    /\ [][pc = "extract"
          => (/\ outcome \in ConversationOutcome
              /\ extract_calls' = extract_calls + 1
              /\ FullSalesHistory(sales_history, messages)
              /\ intent_request' = sales_history \o
                                     <<[role |-> "user", content |-> intent_request_message]>>
              /\ intent_detection' = extract_intent_detection(intent_response')
              /\ conversation_log'.outcome = outcome
              /\ pc' = "done")]_vars
    /\ [][pc = "done" => UNCHANGED vars]_vars

C12_Witness ==
    /\ pc = "done"
    /\ extract_calls = 1
    /\ conversation_log.outcome = REACHED_MESSAGE_LIMIT
    /\ conversation_log.intent_detection # NoDetection
    /\ Len(conversation_log.messages) = 2
    /\ Len(intent_request) = 4

\* C13: a finished conversation in which every assessment returned no outcome
\* ("continue") has exactly max_message_exchanges prospect messages, the
\* outcome reached_message_limit, and one extraction call whose request is the
\* sales system prompt, the whole transcript and the fixed request.
C13_AllContinueReachesLimit ==
    (pc = "done" /\ assess_continue = "every")
        => (/\ ProspectCount(conversation_log.messages) = max_message_exchanges
            /\ conversation_log.outcome = REACHED_MESSAGE_LIMIT
            /\ extract_calls = 1
            /\ Contents(intent_request) =
                 <<create_sales_prompt>> \o Contents(conversation_log.messages)
                                         \o <<intent_request_message>>)

C13_Witness ==
    /\ pc = "done"
    /\ assess_continue = "every"
    /\ assess_failed = "not_every"
    /\ max_message_exchanges = 2
    /\ Len(conversation_log.messages) = 4
    /\ Len(intent_request) = 6
    /\ conversation_log.outcome = REACHED_MESSAGE_LIMIT

\* C14: total_tokens never decreases and always equals the sum of the token
\* counts call_llm has returned so far; a log's total_tokens_used is that sum
\* over one call per sales turn, one per prospect turn and the extraction call.
C14_TokenTotalIsSumOfGatewayCalls ==
    /\ [][total_tokens' >= total_tokens]_vars
    /\ [](total_tokens = SumSeq(gateway_tokens))
    /\ [](pc = "done"
          => (/\ conversation_log.total_tokens_used = SumSeq(gateway_tokens)
              /\ Len(gateway_tokens) = Len(conversation_log.messages)))

C14_Witness ==
    /\ pc = "done"
    /\ gateway_tokens = <<2, 0, 1, 2>>
    /\ conversation_log.total_tokens_used = 5

\* C15: in every log intent_match holds exactly when intent_detection is not
\* null and its detected_intent is the profile's true_intent; a null detection
\* still yields a log, with intent_match false and one of the three outcomes.
C15_IntentMatchIffDetectedTrueIntent ==
    /\ [](conversation_log # NoLog =>
            /\ conversation_log.intent_match
                 <=> (/\ conversation_log.intent_detection # NoDetection
                      /\ conversation_log.intent_detection.detected_intent
                           = conversation_log.true_intent)
            /\ conversation_log.intent_detection = NoDetection
                 => (/\ ~conversation_log.intent_match
                     /\ conversation_log.outcome \in ConversationOutcome))
    /\ [][(pc = "extract" /\ intent_detection' = NoDetection)
          => (pc' = "done" /\ conversation_log' # NoLog
              /\ conversation_log'.intent_detection = NoDetection)]_vars

C15_Witness ==
    /\ pc = "done"
    /\ conversation_log.intent_match
    /\ conversation_log.true_intent = "general_fitness"
    /\ conversation_log.intent_detection.detected_intent = "general_fitness"

---------------------------------------------------------------------------
(* extract_intent_detection as a function of its argument *)

\* Longest argument text, in tokens.
MaxTextLen == 5

AllKeys == {"detected_intent", "confidence_level", "reasoning", "best_time_to_visit"}

\* The payloads explored: complete, a comma-separated list written with
\* blanks, an unknown intent, no confidence_level key, a confidence of 1.1.
ExtractPayloads ==
    {Members(AllKeys, <<"weight_loss">>, 8, "morning"),
     Members(AllKeys \ {"best_time_to_visit"}, <<"general_fitness ", " weight_loss">>, 10, None),
     Members(AllKeys \ {"best_time_to_visit"}, <<" unknown_goal">>, 8, None),
     Members(AllKeys \ {"confidence_level"}, <<"weight_loss">>, 0, "morning"),
     Members(AllKeys \ {"best_time_to_visit"}, <<"weight_loss">>, 11, None)}

ExtractTokens == {Prose[1], LABEL, LBRACE, RBRACE} \cup ExtractPayloads

\* The texts of n tokens.
TextsOfLength(n) == [1 .. n -> ExtractTokens]

\* run_single_conversation not running.
ConversationIdle == ConversationInit /\ max_message_exchanges = 0

\* extract_intent_detection(sales_final_message) called with any text.
ExtractInit ==
    /\ \E n \in 0 .. MaxTextLen : sales_final_message \in TextsOfLength(n)
    /\ extracted = NoDetection
    /\ extractor_pc = "called"
    /\ ConversationIdle
    /\ BatchIdle
    /\ OthersIdle

\* The call returns.
ExtractReturn ==
    /\ extractor_pc = "called"
    /\ extracted' = extract_intent_detection(sales_final_message)
    /\ extractor_pc' = "returned"
    /\ UNCHANGED <<sales_final_message, conversation_vars, batch_vars, assessor_vars,
                   persist_vars, session_vars>>

\* Mutant of ExtractAgain: a repeated call finds nothing.
ExtractAgainFindsNothing ==
    /\ extractor_pc \in {"returned", "returned_again"}
    /\ extracted' = NoDetection
    /\ extractor_pc' = "returned_again"
    /\ UNCHANGED <<sales_final_message, conversation_vars, batch_vars, assessor_vars,
                   persist_vars, session_vars>>

\* The function is called again with the same text, and returns.
ExtractAgain ==
    /\ extractor_pc \in {"returned", "returned_again"}
    /\ extracted' = extract_intent_detection(sales_final_message)
    /\ extractor_pc' = "returned_again"
    /\ UNCHANGED <<sales_final_message, conversation_vars, batch_vars, assessor_vars,
                   persist_vars, session_vars>>

ExtractNext ==
    \/ ExtractReturn
    \/ ExtractAgain

SpecExtract == ExtractInit /\ [][ExtractNext]_vars

---------------------------------------------------------------------------
(* Properties of extract_intent_detection *)

\* The payloads written in text.
PayloadsOf(text) == {text[i] : i \in {j \in 1 .. Len(text) : text[j].t = "members"}}

\* A payload that cannot be decoded: a required key is missing, the intent is
\* unknown, or the confidence is outside [0,1].
Undecodable(m) ==
    \/ ~({"detected_intent", "confidence_level", "reasoning"} \subseteq m.has)
    \/ Len(m.detected_intent) = 0
    \/ Strip(m.detected_intent[1]) \notin Intent
    \/ m.confidence_level < 0
    \/ m.confidence_level > 10

\* C16: the extractor returns either null or a complete IntentDetection whose
\* detected_intent is an Intent and whose confidence_level is within [0,1]; a
\* text without the label, without a closing brace, or whose payloads all
\* miss a required field, name an unknown intent or carry an out-of-range
\* confidence yields null.
C16_ExtractionAllOrNothing ==
    extractor_pc = "returned" =>
      /\ \/ extracted = NoDetection
         \/ /\ DOMAIN extracted =
                 {"detected_intent", "confidence_level", "reasoning", "best_time_to_visit"}
            /\ extracted.detected_intent \in Intent
            /\ extracted.confidence_level \in 0 .. 10
            /\ extracted.reasoning = "reasoning"
            /\ extracted.best_time_to_visit \in {None, "morning"}
      /\ Positions(sales_final_message, LABEL) = {} => extracted = NoDetection
      /\ Positions(sales_final_message, RBRACE) = {} => extracted = NoDetection
      /\ (\A m \in PayloadsOf(sales_final_message) : Undecodable(m)) => extracted = NoDetection

C16_Witness ==
    /\ extractor_pc = "returned"
    /\ sales_final_message =
         <<Prose[1], LABEL, LBRACE,
           Members(AllKeys \ {"best_time_to_visit"}, <<"weight_loss">>, 11, None), RBRACE>>
    /\ extracted = NoDetection

\* The position of the brace closing the object opened at position start (the
\* brace at which the nesting depth returns to 0), or 0 when there is none.
RECURSIVE ClosingBrace(_, _, _)
ClosingBrace(text, at, depth) ==
    IF at > Len(text) THEN 0
    ELSE IF text[at] = LBRACE THEN ClosingBrace(text, at + 1, depth + 1)
    ELSE IF text[at] = RBRACE
         THEN IF depth = 1 THEN at ELSE ClosingBrace(text, at + 1, depth - 1)
    ELSE ClosingBrace(text, at + 1, depth)

\* The decoding of the first balanced brace-delimited object after the label.
FirstObjectAfterLabel(text) ==
    IF Positions(text, LABEL) = {} THEN NoDetection
    ELSE LET label == Min(Positions(text, LABEL))
             opening == {i \in Positions(text, LBRACE) : i > label}
         IN IF opening = {} THEN NoDetection
            ELSE LET closing == ClosingBrace(text, Min(opening), 0)
                 IN IF closing = 0 THEN NoDetection
                    ELSE LET data == LoadsObject(SubSeq(text, Min(opening), closing))
                         IN IF data.t = "error" THEN NoDetection ELSE DecodeDetection(data)

\* C17: the result is the decoding of the first balanced brace-delimited
\* object that follows the label, whatever braces precede the label and
\* whatever text or objects follow that object.
C17_FirstObjectAfterLabelIsDecoded ==
    extractor_pc = "returned" => extracted = FirstObjectAfterLabel(sales_final_message)

\* The text with every comma-separated detected_intent cut down to its first
\* element, trimmed.
FirstIntentAlone(text) ==
    [i \in 1 .. Len(text) |->
        IF text[i].t = "members" /\ Len(text[i].detected_intent) >= 2
        THEN [text[i] EXCEPT !.detected_intent = <<Strip(text[i].detected_intent[1])>>]
        ELSE text[i]]

\* C18: for a payload whose detected_intent is a comma-separated list the
\* result is the one for the same text holding the first element alone, and a
\* labelled object with a valid first element is decoded with that element as
\* detected_intent.
C18_FirstOfSeveralIntentsKept ==
    extractor_pc = "returned" =>
      /\ extracted = extract_intent_detection(FirstIntentAlone(sales_final_message))
      /\ \A m \in PayloadsOf(sales_final_message) :
           (/\ sales_final_message = <<LABEL, LBRACE, m, RBRACE>>
            /\ Len(m.detected_intent) >= 2
            /\ ~Undecodable(m))
             => (/\ extracted # NoDetection
                 /\ extracted.detected_intent = Strip(m.detected_intent[1]))

C18_Witness ==
    /\ extractor_pc = "returned"
    /\ sales_final_message =
         <<LABEL, LBRACE,
           Members(AllKeys \ {"best_time_to_visit"}, <<"general_fitness ", " weight_loss">>,
                   10, None), RBRACE>>
    /\ extracted # NoDetection
    /\ extracted.detected_intent = "general_fitness"

---------------------------------------------------------------------------
(* run_simulation_batch *)

\* Largest config.num_simulations explored.
MaxSimulations == 3

\* Latest reading of the wall clock, in half seconds.
MaxClock == 2

\* datetime.now(): the wall clock may read the same twice.
ClockReadings == 0 .. MaxClock

\* strftime('%Y%m%d_%H%M%S'): the reading cut to whole seconds.
strftime(t) == t \div 2

RECURSIVE Digits(_)
Digits(n) == IF n < 10 THEN <<n>> ELSE Append(Digits(n \div 10), n % 10)

RECURSIVE ZeroPad(_, _)
ZeroPad(digits, width) ==
    IF Len(digits) >= width THEN digits ELSE ZeroPad(<<0>> \o digits, width)

\* f"{i:04d}": the decimal digits, zero-padded to at least four.
Format04d(n) == ZeroPad(Digits(n), 4)

\* Mutant of ConversationId: the identifier is the timestamp alone.
ConversationIdWithoutIndex(t, n) ==
    [prefix |-> "conv", stamp |-> strftime(t), index |-> <<>>]

\* f"conv_{datetime.now().strftime(...)}_{i:04d}"
ConversationId(t, n) ==
    [prefix |-> "conv", stamp |-> strftime(t), index |-> Format04d(n)]

\* How run_single_conversation(config, conversation_id) ends: it raises, or it
\* returns a ConversationLog carrying the identifier and one of the outcomes
\* (the states pc = "raised" and pc = "done" of Spec).
RunResults(id) ==
    {[raised |-> TRUE, log |-> NoLog]}
    \cup {[raised |-> FALSE, log |-> [conversation_id |-> id, outcome |-> oc]] :
            oc \in ConversationOutcome}

\* for i in range(config.num_simulations)
BatchLoopRuns(n) == n < num_simulations

\* Mutant of LogsAfter: a failed conversation discards the logs collected so far.
LogsAfterFailureResets(collected, result) ==
    IF result.raised THEN <<>> ELSE Append(collected, result.log)

\* Mutant of LogsAfter: a new log is put in front of the collected ones.
LogsAfterPrepends(collected, result) ==
    IF result.raised THEN collected ELSE <<result.log>> \o collected

\* Mutant of LogsAfter: a new log takes the place of the latest one.
LogsAfterReplacesLatest(collected, result) ==
    IF result.raised THEN collected
    ELSE IF collected = <<>> THEN <<result.log>>
         ELSE [collected EXCEPT ![Len(collected)] = result.log]

\* try: logs.append(log) / except Exception: continue
LogsAfter(collected, result) ==
    IF result.raised THEN collected ELSE Append(collected, result.log)

\* config and logs = [] on entry of run_simulation_batch.
BatchInit ==
    /\ num_simulations \in 0 .. MaxSimulations
    /\ batch_pc = "loop"
    /\ sim_i = 0
    /\ conversation_id = None
    /\ logs = <<>>
    /\ results = <<>>
    /\ ConversationIdle
    /\ ExtractorIdle
    /\ OthersIdle

\* One iteration: the identifier, the conversation, the append or the skip.
RunConversation ==
    /\ batch_pc = "loop"
    /\ BatchLoopRuns(sim_i)
    /\ \E t \in ClockReadings :
         \E result \in RunResults(ConversationId(t, sim_i)) :
            /\ conversation_id' = ConversationId(t, sim_i)
            /\ logs' = LogsAfter(logs, result)
            /\ results' = Append(results, [index |-> sim_i,
                                           conversation_id |-> ConversationId(t, sim_i),
                                           raised |-> result.raised,
                                           log |-> result.log])
    /\ sim_i' = sim_i + 1
    /\ UNCHANGED <<num_simulations, batch_pc, conversation_vars, extractor_vars,
                   assessor_vars, persist_vars, session_vars>>

\* The range is exhausted: return logs.
BatchReturn ==
    /\ batch_pc = "loop"
    /\ ~BatchLoopRuns(sim_i)
    /\ batch_pc' = "returned"
    /\ UNCHANGED <<num_simulations, sim_i, conversation_id, logs, results,
                   conversation_vars, extractor_vars, assessor_vars, persist_vars, session_vars>>

BatchNext ==
    \/ RunConversation
    \/ BatchReturn

SpecBatch == BatchInit /\ [][BatchNext]_vars

---------------------------------------------------------------------------
(* Properties of run_simulation_batch *)

\* The logs of the conversations that did not raise, in order.
RECURSIVE LogsOfCompleted(_)
LogsOfCompleted(ended) ==
    IF ended = <<>> THEN <<>>
    ELSE IF ended[1].raised THEN LogsOfCompleted(Tail(ended))
         ELSE <<ended[1].log>> \o LogsOfCompleted(Tail(ended))

\* C19: every index 0 .. num_simulations - 1 is attempted in turn whether or
\* not earlier conversations raised, the batch always goes on to the next
\* index and then returns, and the returned logs are exactly the logs of the
\* conversations that did not raise, so at most num_simulations of them.
C19_BatchSurvivesFailedConversations ==
    /\ [][(batch_pc = "loop" /\ sim_i < num_simulations)
          => (/\ batch_pc' = "loop"
              /\ sim_i' = sim_i + 1
              /\ Len(results') = Len(results) + 1)]_vars
    /\ [][(batch_pc = "loop" /\ sim_i >= num_simulations) => batch_pc' = "returned"]_vars
    /\ [](logs = LogsOfCompleted(results))
    /\ [](batch_pc = "returned"
          => (/\ Len(results) = num_simulations
              /\ \A k \in 1 .. Len(results) : results[k].index = k - 1
              /\ Len(logs) <= num_simulations))

C19_Witness ==
    /\ batch_pc = "returned"
    /\ num_simulations = 3
    /\ results[1].raised
    /\ ~results[2].raised
    /\ results[3].raised
    /\ Len(logs) = 1
    /\ logs[1].conversation_id.index = <<0, 0, 0, 1>>

\* C20: the identifiers given to the conversations of a batch are pairwise
\* distinct, and so are the conversation_id values of the collected logs.
C20_ConversationIdsDistinct ==
    /\ \A a, b \in 1 .. Len(results) :
         a # b => results[a].conversation_id # results[b].conversation_id
    /\ \A a, b \in 1 .. Len(logs) :
         a # b => logs[a].conversation_id # logs[b].conversation_id

C20_Witness ==
    /\ batch_pc = "returned"
    /\ Len(logs) = 3
    /\ logs[1].conversation_id.stamp = logs[2].conversation_id.stamp
    /\ logs[2].conversation_id.stamp = logs[3].conversation_id.stamp
    /\ logs[1].outcome = logs[2].outcome

\* The number written by a digit string.
RECURSIVE DigitsValue(_)
DigitsValue(digits) ==
    IF digits = <<>> THEN 0
    ELSE 10 * DigitsValue(SubSeq(digits, 1, Len(digits) - 1)) + digits[Len(digits)]

\* C21: the collected logs are in strictly increasing order of the iteration
\* index written in their identifiers, at every moment of the batch and in
\* the returned collection, whichever conversations were skipped.
C21_LogsOrderedByIndex ==
    \A a, b \in 1 .. Len(logs) :
        a < b => DigitsValue(logs[a].conversation_id.index)
                   < DigitsValue(logs[b].conversation_id.index)

C21_Witness ==
    /\ batch_pc = "returned"
    /\ num_simulations = 3
    /\ results[2].raised
    /\ Len(logs) = 2
    /\ DigitsValue(logs[1].conversation_id.index) = 0
    /\ DigitsValue(logs[2].conversation_id.index) = 2

---------------------------------------------------------------------------
(* Further properties of run_single_conversation *)

\* The role a history gives to a transcript message: assistant for its
\* owner's turns, user for the other side's.
MirrorRole(owner, message) == IF message.role = owner THEN "assistant" ELSE "user"

\* C28: from the opening on, both histories without their system prompt have
\* the transcript's length and contents in the transcript's order, a sales
\* message being assistant in sales_history and user in prospect_history and a
\* prospect message the inverse.
C28_HistoriesMirrorTranscript ==
    pc # "start" =>
      /\ Len(sales_history) = Len(messages) + 1
      /\ Len(prospect_history) = Len(messages) + 1
      /\ sales_history[1].role = "system"
      /\ prospect_history[1].role = "system"
      /\ \A k \in 1 .. Len(messages) :
           /\ sales_history[k + 1] =
                [role |-> MirrorRole("sales", messages[k]), content |-> messages[k].content]
           /\ prospect_history[k + 1] =
                [role |-> MirrorRole("prospect", messages[k]), content |-> messages[k].content]

C28_Witness ==
    /\ pc = "assess"
    /\ Len(messages) = 4
    /\ sales_history[4].role = "assistant"
    /\ prospect_history[4].role = "user"
    /\ sales_history[5].role = "user"
    /\ prospect_history[5].role = "assistant"
    /\ sales_history[5].content = ErrorMarker

\* The number of call_llm calls made for the given purpose.
CallsFor(purpose) ==
    Cardinality({k \in 1 .. Len(gateway_calls) : gateway_calls[k].purpose = purpose})

\* C29: no sales call is made in the first exchange, and in every later
\* exchange one sales call precedes the prospect call; a finished conversation
\* of k >= 1 exchanges has made k - 1 sales-turn calls and k prospect-turn
\* calls, alternating from a prospect call, and then the extraction call.
C29_SalesTurnSkippedOnFirstExchangeOnly ==
    /\ pc = "sales_turn" =>
         (exchange >= 1 /\ CallsFor("sales") = exchange - 1 /\ CallsFor("prospect") = exchange)
    /\ pc = "prospect_turn" =>
         (CallsFor("sales") = exchange /\ CallsFor("prospect") = exchange)
    /\ (pc = "done" /\ ProspectCount(messages) >= 1) =>
         LET k == ProspectCount(messages)
         IN /\ CallsFor("sales") = k - 1
            /\ CallsFor("prospect") = k
            /\ Len(gateway_calls) = 2 * k
            /\ \A c \in 1 .. 2 * k - 1 :
                 gateway_calls[c].purpose = IF c % 2 = 1 THEN "prospect" ELSE "sales"
            /\ gateway_calls[2 * k].purpose = "extraction"

C29_Witness ==
    /\ pc = "done"
    /\ ProspectCount(messages) = 2
    /\ [c \in 1 .. Len(gateway_calls) |-> gateway_calls[c].purpose]
         = <<"prospect", "sales", "prospect", "extraction">>

\* C30: the log's conversation_length is the number of prospect messages of
\* its transcript, and the transcript has an even number of messages, the
\* last one a prospect message.
C30_LengthCountsCompletedExchanges ==
    pc = "done" =>
      /\ conversation_log.conversation_length = ProspectCount(conversation_log.messages)
      /\ Len(conversation_log.messages) % 2 = 0
      /\ conversation_log.messages[Len(conversation_log.messages)].role = "prospect"

\* One run of run_single_conversation in which every call returns: a step
\* that can be taken is eventually taken.
SpecFair == Init /\ [][Next]_vars /\ WF_vars(Next)

\* The conversation has returned its log or raised.
Ended == pc \in {"done", "raised"}

---------------------------------------------------------------------------
(* assess_conversation_status as a function of the client's reply *)

\* The JSON values a reply may carry.
AssessBodies ==
    {Json(kind, se, oc) :
        kind \in {"object", "array"},
        se \in {"true", "false", "absent"},
        oc \in {"agreed_to_free_class", "not_interested", "continue", "absent"}}

FenceStyles == {"bare", "json_fence", "plain_fence"}

\* The reply text carrying body: bare, or inside a fence with or without
\* prose before and after it.
Wrapped(body, style, before, after) ==
    IF style = "bare" THEN <<body>>
    ELSE (IF before THEN Prose ELSE <<>>)
         \o (IF style = "json_fence" THEN <<FENCE, JSONWORD>> ELSE <<FENCE>>)
         \o <<body, FENCE>>
         \o (IF after THEN Prose ELSE <<>>)

\* assess_conversation_status called, the client about to answer with any
\* body in any wrapping.
AssessInit ==
    /\ assessor_body \in AssessBodies
    /\ \E style \in FenceStyles, before \in BOOLEAN, after \in BOOLEAN :
         assessor_reply = Wrapped(assessor_body, style, before, after)
    /\ assessed = AssessDefault
    /\ assessor_pc = "called"
    /\ ConversationIdle
    /\ ExtractorIdle
    /\ BatchIdle
    /\ PersistIdle
    /\ SessionIdle

\* The call returns.
AssessReturn ==
    /\ assessor_pc = "called"
    /\ assessed' = assess_conversation_status(Response(assessor_reply, 1))
    /\ assessor_pc' = "returned"
    /\ UNCHANGED <<assessor_body, assessor_reply, conversation_vars, extractor_vars,
                   batch_vars, persist_vars, session_vars>>

AssessNext == AssessReturn

SpecAssess == AssessInit /\ [][AssessNext]_vars

\* C27: whatever the wrapping of the reply (bare, a fence marked json, a
\* plain fence, prose around the fence or not), the assessor returns the
\* (should_end, outcome) pair it returns for the bare JSON value.
C27_FencesDoNotChangeAssessment ==
    assessor_pc = "returned" =>
      LET bare == assess_conversation_status(Response(<<assessor_body>>, 1))
      IN /\ assessed.should_end = bare.should_end
         /\ assessed.outcome = bare.outcome

C27_Witness ==
    /\ assessor_pc = "returned"
    /\ assessor_body = Json("object", "true", "not_interested")
    /\ assessor_reply = Prose \o <<FENCE, assessor_body, FENCE>> \o Prose
    /\ assessed.should_end = "true"
    /\ assessed.outcome = NOT_INTERESTED

---------------------------------------------------------------------------
(* save_logs and the persisted log format *)

\* Python values: an enumeration member, a datetime, None, a present value
\* of an Optional field.
EnumMember(enum, tag) == [enum |-> enum, value |-> tag]
DateTime(second, microsecond) == [second |-> second, microsecond |-> microsecond]
PyNone == [none |-> TRUE]
Some(v) == [some |-> v]

\* JSON values: strings, numbers, booleans, null; arrays are sequences and
\* objects are records of them.
JStr(v) == [str |-> v]
JNum(v) == [num |-> v]
JBool(v) == [bool |-> v]
JNull == [null |-> TRUE]

\* The string tags of the enumerations of models.py.
EnumTags(enum) ==
    CASE enum = "Intent" -> Intent
      [] enum = "ConversationOutcome" -> ConversationOutcome
      [] enum = "ObjectionType" -> {"price", "time_commitment", "injury_concerns",
                                    "intimidation_factor", "location_parking", "just_looking"}
      [] enum = "ReadinessLevel" -> {"hot", "warm", "cold"}

\* Mutant of IsoFormat: the timestamp is written in whole seconds.
IsoFormatWholeSeconds(dt) == <<dt.second>>

\* The ISO-8601 text of a datetime: the fraction is written only when the
\* microsecond is not 0.
IsoFormat(dt) == IF dt.microsecond = 0 THEN <<dt.second>> ELSE <<dt.second, dt.microsecond>>

\* The datetime an ISO-8601 text denotes.
FromIsoFormat(iso) == DateTime(iso[1], IF Len(iso) = 1 THEN 0 ELSE iso[2])

\* model_dump(mode='json') of the models.
DumpOptional(x) == IF x = PyNone THEN JNull ELSE x.some

DumpMessage(m) ==
    [role |-> JStr(m.role),
     content |-> JStr(m.content),
     timestamp |-> JStr(IsoFormat(m.timestamp)),
     tokens_used |-> DumpOptional(IF m.tokens_used = PyNone THEN PyNone
                                  ELSE Some(JNum(m.tokens_used.some)))]

DumpDetection(d) ==
    [detected_intent |-> JStr(d.detected_intent.value),
     confidence_level |-> JNum(d.confidence_level),
     reasoning |-> JStr(d.reasoning),
     best_time_to_visit |-> DumpOptional(IF d.best_time_to_visit = PyNone THEN PyNone
                                         ELSE Some(JStr(d.best_time_to_visit.some)))]

DumpProfile(profile) ==
    [true_intent |-> JStr(profile.true_intent.value),
     objection_type |-> DumpOptional(IF profile.objection_type = PyNone THEN PyNone
                                     ELSE Some(JStr(profile.objection_type.some.value))),
     readiness_level |-> JStr(profile.readiness_level.value),
     age_range |-> JStr(profile.age_range)]

model_dump(log) ==
    [conversation_id |-> JStr(log.conversation_id),
     prospect_profile |-> DumpProfile(log.prospect_profile),
     messages |-> [k \in 1 .. Len(log.messages) |-> DumpMessage(log.messages[k])],
     intent_detection |-> IF log.intent_detection = PyNone THEN JNull
                          ELSE DumpDetection(log.intent_detection.some),
     outcome |-> JStr(log.outcome.value),
     total_tokens_used |-> JNum(log.total_tokens_used),
     conversation_length |-> JNum(log.conversation_length),
     intent_match |-> JBool(log.intent_match),
     timestamp |-> JStr(IsoFormat(log.timestamp))]

\* Validation of JSON data against the field types of the models: an
\* enumeration field takes one of its tags, an Optional field also null.
IsTag(enum, j) == DOMAIN j = {"str"} /\ j.str \in EnumTags(enum)

ValidMessageData(j) ==
    /\ DOMAIN j.role = {"str"} /\ j.role.str \in {"prospect", "sales"}
    /\ DOMAIN j.content = {"str"}
    /\ DOMAIN j.timestamp = {"str"}
    /\ j.tokens_used = JNull \/ DOMAIN j.tokens_used = {"num"}

ValidDetectionData(j) ==
    /\ IsTag("Intent", j.detected_intent)
    /\ DOMAIN j.confidence_level = {"num"}
    /\ ConfidenceIsValid(j.confidence_level.num)
    /\ DOMAIN j.reasoning = {"str"}
    /\ j.best_time_to_visit = JNull \/ DOMAIN j.best_time_to_visit = {"str"}

ValidLogData(j) ==
    /\ DOMAIN j.conversation_id = {"str"}
    /\ IsTag("Intent", j.prospect_profile.true_intent)
    /\ \/ j.prospect_profile.objection_type = JNull
       \/ IsTag("ObjectionType", j.prospect_profile.objection_type)
    /\ IsTag("ReadinessLevel", j.prospect_profile.readiness_level)
    /\ \A k \in 1 .. Len(j.messages) : ValidMessageData(j.messages[k])
    /\ j.intent_detection = JNull \/ ValidDetectionData(j.intent_detection)
    /\ IsTag("ConversationOutcome", j.outcome)
    /\ DOMAIN j.total_tokens_used = {"num"}
    /\ DOMAIN j.conversation_length = {"num"}
    /\ DOMAIN j.intent_match = {"bool"}
    /\ DOMAIN j.timestamp = {"str"}

ValidateMessage(j) ==
    [role |-> j.role.str,
     content |-> j.content.str,
     timestamp |-> FromIsoFormat(j.timestamp.str),
     tokens_used |-> IF j.tokens_used = JNull THEN PyNone ELSE Some(j.tokens_used.num)]

ValidateDetection(j) ==
    [detected_intent |-> EnumMember("Intent", j.detected_intent.str),
     confidence_level |-> j.confidence_level.num,
     reasoning |-> j.reasoning.str,
     best_time_to_visit |-> IF j.best_time_to_visit = JNull THEN PyNone
                            ELSE Some(j.best_time_to_visit.str)]

\* ConversationLog(**data): the log the data validates to, or the validation error.
ValidateLog(j) ==
    IF ~ValidLogData(j) THEN [error |-> "ValidationError"]
    ELSE [conversation_id |-> j.conversation_id.str,
          prospect_profile |->
              [true_intent |-> EnumMember("Intent", j.prospect_profile.true_intent.str),
               objection_type |->
                   IF j.prospect_profile.objection_type = JNull THEN PyNone
                   ELSE Some(EnumMember("ObjectionType", j.prospect_profile.objection_type.str)),
               readiness_level |->
                   EnumMember("ReadinessLevel", j.prospect_profile.readiness_level.str),
               age_range |-> j.prospect_profile.age_range.str],
          messages |-> [k \in 1 .. Len(j.messages) |-> ValidateMessage(j.messages[k])],
          intent_detection |-> IF j.intent_detection = JNull THEN PyNone
                               ELSE Some(ValidateDetection(j.intent_detection)),
          outcome |-> EnumMember("ConversationOutcome", j.outcome.str),
          total_tokens_used |-> j.total_tokens_used.num,
          conversation_length |-> j.conversation_length.num,
          intent_match |-> j.intent_match.bool,
          timestamp |-> FromIsoFormat(j.timestamp.str)]

\* datetime values explored: a whole second and one with microseconds.
Timestamps == {DateTime(7, 0), DateTime(7, 123456)}

\* The logs explored.
LogsToSave ==
    {[conversation_id |-> "conv_20260101_000000_0000",
      prospect_profile |-> [true_intent |-> EnumMember("Intent", ti),
                            objection_type |-> ot,
                            readiness_level |-> EnumMember("ReadinessLevel", "warm"),
                            age_range |-> "25-35"],
      messages |-> ms,
      intent_detection |-> det,
      outcome |-> EnumMember("ConversationOutcome", oc),
      total_tokens_used |-> 2,
      conversation_length |-> 1,
      intent_match |-> FALSE,
      timestamp |-> ts] :
        ti \in Intent,
        ot \in {PyNone, Some(EnumMember("ObjectionType", "price"))},
        ms \in {<<[role |-> "sales", content |-> sales_opening, timestamp |-> DateTime(7, 0),
                   tokens_used |-> Some(0)]>>,
                <<[role |-> "sales", content |-> sales_opening,
                   timestamp |-> DateTime(7, 123456), tokens_used |-> PyNone],
                  [role |-> "prospect", content |-> ErrorMarker,
                   timestamp |-> DateTime(8, 5), tokens_used |-> Some(2)]>>},
        det \in {PyNone,
                 Some([detected_intent |-> EnumMember("Intent", "weight_loss"),
                       confidence_level |-> 8, reasoning |-> "reasoning",
                       best_time_to_visit |-> PyNone]),
                 Some([detected_intent |-> EnumMember("Intent", "general_fitness"),
                       confidence_level |-> 10, reasoning |-> "reasoning",
                       best_time_to_visit |-> Some("morning")])},
        oc \in ConversationOutcome,
        ts \in Timestamps}

\* save_logs(logs) called with one log.
PersistInit ==
    /\ log_saved \in LogsToSave
    /\ persisted = NoLog
    /\ log_loaded = NoLog
    /\ persist_pc = "saving"
    /\ ConversationIdle
    /\ ExtractorIdle
    /\ BatchIdle
    /\ AssessorIdle
    /\ SessionIdle

\* logs_data = [log.model_dump(mode='json') for log in logs]; json.dump
SaveLogs ==
    /\ persist_pc = "saving"
    /\ persisted' = <<model_dump(log_saved)>>
    /\ persist_pc' = "saved"
    /\ UNCHANGED <<log_saved, log_loaded, conversation_vars, extractor_vars, batch_vars,
                   assessor_vars, session_vars>>

\* The file is read back and its entry validated as a ConversationLog.
LoadLog ==
    /\ persist_pc = "saved"
    /\ log_loaded' = ValidateLog(persisted[1])
    /\ persist_pc' = "loaded"
    /\ UNCHANGED <<log_saved, persisted, conversation_vars, extractor_vars, batch_vars,
                   assessor_vars, session_vars>>

PersistNext ==
    \/ SaveLogs
    \/ LoadLog

SpecPersist == PersistInit /\ [][PersistNext]_vars

---------------------------------------------------------------------------
(* run_simulation_batch around one run of run_single_conversation *)

\* Largest config.max_message_exchanges explored inside a batch.
MaxBatchLimit == 2

\* What one call of run_single_conversation reads from outside: the config,
\* the profile draw, and the client's answers to its gateway and assessor calls.
OwnInputs ==
    [max_message_exchanges |-> max_message_exchanges,
     true_intent |-> true_intent,
     gateway_calls |-> gateway_calls,
     assess_answer |-> assess_answer]

\* ConversationLog(conversation_id=conversation_id, ...)
ReturnedLog(id, log) == [conversation_id |-> id] @@ log

\* The batch inside iteration sim_i, run_single_conversation just entered:
\* a batch of two conversations, the other one taken as a whole: the one
\* before it has ended in one of the ways RunResults allows, or one follows.
\* The conversation is entered at the latest clock reading, the one before
\* it at any reading up to that.
BatchRunInit ==
    /\ sim_i \in {0, 1}
    /\ num_simulations = 2
    /\ batch_pc = "running"
    /\ conversation_id = ConversationId(MaxClock, sim_i)
    /\ IF sim_i = 0
       THEN logs = <<>> /\ results = <<>>
       ELSE \E earlier \in ClockReadings :
              \E result \in RunResults(ConversationId(earlier, 0)) :
                 /\ logs = LogsAfter(<<>>, result)
                 /\ results = <<[index |-> 0,
                                 conversation_id |-> ConversationId(earlier, 0),
                                 raised |-> result.raised,
                                 log |-> result.log]>>
    /\ max_message_exchanges \in 0 .. MaxBatchLimit
    /\ ConversationInit
    /\ ExtractorIdle
    /\ OthersIdle

\* log = run_single_conversation(...) returns: logs.append(log), then the next
\* index, or return logs when the range is exhausted.
ConversationReturns ==
    /\ batch_pc = "running"
    /\ pc = "done"
    /\ LET result == [raised |-> FALSE, log |-> ReturnedLog(conversation_id, conversation_log)]
       IN /\ logs' = LogsAfter(logs, result)
          /\ results' = Append(results, [index |-> sim_i,
                                         conversation_id |-> conversation_id,
                                         raised |-> FALSE,
                                         log |-> result.log,
                                         inputs |-> OwnInputs])
    /\ sim_i' = sim_i + 1
    /\ batch_pc' = IF BatchLoopRuns(sim_i + 1) THEN "loop" ELSE "returned"
    /\ UNCHANGED <<num_simulations, conversation_id, conversation_vars, extractor_vars,
                   assessor_vars, persist_vars, session_vars>>

\* run_single_conversation raises: except Exception, print, continue to the
\* next index, or return logs when the range is exhausted.
ConversationRaises ==
    /\ batch_pc = "running"
    /\ pc = "raised"
    /\ LET result == [raised |-> TRUE, log |-> NoLog]
       IN /\ logs' = LogsAfter(logs, result)
          /\ results' = Append(results, [index |-> sim_i,
                                         conversation_id |-> conversation_id,
                                         raised |-> TRUE,
                                         log |-> NoLog,
                                         inputs |-> OwnInputs])
    /\ sim_i' = sim_i + 1
    /\ batch_pc' = IF BatchLoopRuns(sim_i + 1) THEN "loop" ELSE "returned"
    /\ UNCHANGED <<num_simulations, conversation_id, conversation_vars, extractor_vars,
                   assessor_vars, persist_vars, session_vars>>

BatchRunNext ==
    \/ Opening
    \/ SalesTurn
    \/ ProspectTurn
    \/ Assess
    \/ AssessFinal
    \/ AfterLoop
    \/ Extract
    \/ ConversationReturns
    \/ ConversationRaises
    \/ RunConversation
    \/ BatchReturn

SpecBatchRun == BatchRunInit /\ [][BatchRunNext]_vars

---------------------------------------------------------------------------
(* Properties of a conversation inside its batch *)

\* The calls of a conversation that produced transcript messages.
RECURSIVE TurnMessages(_)
TurnMessages(calls) ==
    IF calls = <<>> THEN <<>>
    ELSE IF calls[1].purpose = "extraction" THEN TurnMessages(Tail(calls))
         ELSE <<ConversationMessage(calls[1].purpose, call_llm(calls[1].answer).content,
                                    call_llm(calls[1].answer).tokens)>>
              \o TurnMessages(Tail(calls))

\* The log of a completed conversation as a function of what it read: its
\* profile draw, the answers to its own gateway calls, and the answer to its
\* own latest assessor call.
LogOf(inputs) ==
    LET calls == inputs.gateway_calls
        transcript == <<ConversationMessage("sales", sales_opening, 0)>> \o TurnMessages(calls)
        a == IF inputs.assess_answer.kind = "none" THEN AssessDefault
             ELSE assess_conversation_status(inputs.assess_answer)
        det == extract_intent_detection(call_llm(calls[Len(calls)].answer).content)
    IN [true_intent |-> inputs.true_intent,
        messages |-> transcript,
        intent_detection |-> det,
        outcome |-> IF Terminates(a.should_end, a.outcome) THEN a.outcome
                    ELSE REACHED_MESSAGE_LIMIT,
        total_tokens_used |-> SumSeq([k \in 1 .. Len(calls) |-> call_llm(calls[k].answer).tokens]),
        conversation_length |->
            Cardinality({k \in 1 .. Len(transcript) : transcript[k].role = "sales"}),
        intent_match |-> IntentMatch(det, inputs.true_intent)]

\* The conversations of the batch whose run is followed step by step.
Followed == {k \in 1 .. Len(results) : "inputs" \in DOMAIN results[k]}

\* C22: the log of a conversation is determined by its own profile draw and
\* its own gateway and assessor answers, whatever the conversations before it
\* did; and how later conversations end (a log or a failure) leaves its
\* transcript, outcome, token total and intent detection in the collection
\* as they were.
C22_ConversationsIsolated ==
    /\ (batch_pc = "running" /\ pc = "done") => conversation_log = LogOf(OwnInputs)
    /\ \A k \in Followed :
         ~results[k].raised =>
            LET at == Len(LogsOfCompleted(SubSeq(results, 1, k)))
            IN /\ results[k].log
                    = ReturnedLog(results[k].conversation_id, LogOf(results[k].inputs))
               /\ Len(logs) >= at
               /\ logs[at] = results[k].log

C22_Witness ==
    /\ batch_pc = "returned"
    /\ Followed = {1}
    /\ ~results[1].raised
    /\ results[2].raised
    /\ results[1].log.outcome = AGREED_FREE_CLASS
    /\ results[1].log.intent_detection # NoDetection
    /\ Len(results[1].log.messages) = 4
    /\ logs = <<results[1].log>>

\* C24: conversation_log is assigned once, by the last step of
\* run_single_conversation, when the outcome is fixed and the extraction has
\* run; and every step of the batch leaves the logs already collected in
\* place, adding at most one log at the end.
C24_LogCreatedOnceCollectionAppendOnly ==
    /\ [][conversation_log' # conversation_log
          => (/\ conversation_log = NoLog
              /\ pc = "extract"
              /\ pc' = "done"
              /\ outcome \in ConversationOutcome
              /\ outcome' = outcome
              /\ conversation_log'.outcome = outcome
              /\ extract_calls = 0
              /\ extract_calls' = 1)]_vars
    /\ [](conversation_log # NoLog <=> pc = "done")
    /\ [][/\ Len(logs') \in {Len(logs), Len(logs) + 1}
          /\ SubSeq(logs', 1, Len(logs)) = logs]_vars
    /\ [][ConversationReturns
          => logs' = Append(logs, ReturnedLog(conversation_id, conversation_log))]_vars

C24_Witness ==
    /\ batch_pc = "returned"
    /\ Followed = {2}
    /\ Len(logs) = 2
    /\ logs[1] = results[1].log
    /\ logs[2] = ReturnedLog(results[2].conversation_id, conversation_log)
    /\ logs[2].outcome = REACHED_MESSAGE_LIMIT

---------------------------------------------------------------------------
(* Further properties of run_single_conversation: limits, tokens, frames *)

\* C31: with max_message_exchanges <= 0 the conversation makes no prospect
\* turn and no assessment and still ends with a log: the outcome is
\* reached_message_limit, the transcript is the opening message alone, and the
\* extraction call was made exactly once.
C31_NoExchangeStillCloses ==
    /\ [](max_message_exchanges <= 0
          => (/\ pc \in {"start", "after_loop", "extract", "done"}
              /\ CallsFor("prospect") = 0
              /\ CallsFor("sales") = 0
              /\ assess_answer.kind = "none"
              /\ assess_calls = 0))
    /\ [][(max_message_exchanges <= 0 /\ pc = "extract") => pc' = "done"]_vars
    /\ []((max_message_exchanges <= 0 /\ pc = "done")
          => (/\ conversation_log.outcome = REACHED_MESSAGE_LIMIT
              /\ conversation_log.messages = <<ConversationMessage("sales", sales_opening, 0)>>
              /\ CallsFor("extraction") = 1
              /\ Len(gateway_calls) = 1
              /\ extract_calls = 1))

C31_Witness ==
    /\ max_message_exchanges = 0
    /\ pc = "done"
    /\ conversation_log.outcome = REACHED_MESSAGE_LIMIT
    /\ Len(conversation_log.messages) = 1
    /\ gateway_calls[1].purpose = "extraction"

\* The tokens_used of the messages of a transcript, in order.
TokensUsed(msgs) == [k \in 1 .. Len(msgs) |-> msgs[k].tokens_used]

\* C32: an assessment leaves the token total as it was, and in every log
\* total_tokens_used is the sum of tokens_used over the transcript messages
\* plus the tokens of the one extraction call.
C32_AssessorNotCharged ==
    /\ [][(pc \in AssessPcs) => (total_tokens' = total_tokens)]_vars
    /\ [](pc = "done"
          => (/\ CallsFor("extraction") = 1
              /\ gateway_calls[Len(gateway_calls)].purpose = "extraction"
              /\ conversation_log.total_tokens_used
                   = SumSeq(TokensUsed(conversation_log.messages))
                     + call_llm(gateway_calls[Len(gateway_calls)].answer).tokens))

C32_Witness ==
    /\ pc = "done"
    /\ assess_answer.kind = "response"
    /\ assess_answer.tokens = 1
    /\ Len(conversation_log.messages) = 4
    /\ conversation_log.total_tokens_used = 6
    /\ call_llm(gateway_calls[Len(gateway_calls)].answer).tokens = 2

\* C33: the extraction step leaves messages, sales_history and
\* prospect_history as they were, so the logged transcript is the opening
\* followed by one message per sales and prospect call of the loop, and
\* neither history holds the intent request.
C33_ExtractionLeavesTranscript ==
    /\ [][pc = "extract"
          => (/\ messages' = messages
              /\ sales_history' = sales_history
              /\ prospect_history' = prospect_history)]_vars
    /\ [](pc = "done"
          => (/\ conversation_log.messages
                   = <<ConversationMessage("sales", sales_opening, 0)>>
                     \o TurnMessages(gateway_calls)
              /\ Len(conversation_log.messages) = 1 + CallsFor("sales") + CallsFor("prospect")
              /\ Len(sales_history) = 1 + Len(conversation_log.messages)
              /\ Len(prospect_history) = 1 + Len(conversation_log.messages)
              /\ \A k \in 1 .. Len(sales_history) :
                    sales_history[k].content # intent_request_message
              /\ \A k \in 1 .. Len(prospect_history) :
                    prospect_history[k].content # intent_request_message
              /\ intent_request = IntentRequest(sales_history)))

C33_Witness ==
    /\ pc = "done"
    /\ Len(conversation_log.messages) = 4
    /\ intent_response # NoneText
    /\ intent_response # ErrorMarker
    /\ Len(intent_request) = 6
    /\ Len(sales_history) = 5

\* C34: the outcome an assessment returns is agreed_to_free_class,
\* not_interested or null, also when the reply names reached_message_limit;
\* outcome becomes reached_message_limit only at the limit test of the last
\* exchange or at the default after the loop.
C34_AssessorNeverReturnsLimit ==
    /\ [](assessed_outcome \in {None, AGREED_FREE_CLASS, NOT_INTERESTED})
    /\ [](assess_answer.kind # "none"
          => assess_conversation_status(assess_answer).outcome
               \in {None, AGREED_FREE_CLASS, NOT_INTERESTED})
    /\ [][(outcome # REACHED_MESSAGE_LIMIT /\ outcome' = REACHED_MESSAGE_LIMIT)
          => (/\ pc \in {"assess_final", "after_loop"}
              /\ assessed_outcome' # REACHED_MESSAGE_LIMIT
              /\ pc = "assess_final" => ~Terminates(should_end', assessed_outcome'))]_vars

C34_Witness ==
    /\ pc = "done"
    /\ Json("object", "true", "reached_message_limit") \in AnswerObjects(assess_answer)
    /\ assessed_outcome = None
    /\ should_end # None
    /\ conversation_log.outcome = REACHED_MESSAGE_LIMIT

---------------------------------------------------------------------------
(* The human chat session: app.py *)

\* What the user may submit: text, or whitespace only.
UserText == <<Tok("user_text")>>
Whitespace == <<Tok("space")>>
UserInputs == {UserText, Whitespace}

\* not user_input.strip()
StripIsEmpty(text) == \A k \in 1 .. Len(text) : text[k].t = "space"

\* Answers of the client to a sales reply of the chat session.
SessionSalesAnswers == {Exception, Response(Prose, 1)}

\* len([m for m in st.session_state.messages if m["role"] == "user"])
NumExchanges(msgs) == Cardinality({k \in 1 .. Len(msgs) : msgs[k].role = "user"})

\* Mutant of SessionAtLimit: the limit is passed before the session ends.
SessionAtLimitPassed(num_exchanges) == num_exchanges > session_config

\* if num_exchanges >= st.session_state.config.max_message_exchanges
SessionAtLimit(num_exchanges) == num_exchanges >= session_config

\* Mutant of AcceptsInput: the chat input stays open after the end.
AcceptsInputAlways == TRUE

\* if not st.session_state.conversation_ended: st.chat_input(...)
AcceptsInput == ~conversation_ended

\* The browser session opens: initialize_session_state().
SessionInit ==
    /\ InitialSessionState
    /\ session_event = "initialized"
    /\ session_assess_calls = 0
    /\ session_sales_calls = 0
    /\ detect_intent_calls = 0
    /\ session_assessed = AssessDefault
    /\ ConversationIdle
    /\ ExtractorIdle
    /\ BatchIdle
    /\ AssessorIdle
    /\ PersistIdle

\* The Start Conversation button: start_conversation().
StartConversation ==
    /\ ~conversation_started
    /\ session_sales_history' =
         <<[role |-> "system", content |-> create_sales_prompt],
           [role |-> "assistant", content |-> sales_opening]>>
    /\ session_messages' = Append(session_messages, [role |-> "sales", content |-> sales_opening])
    /\ conversation_started' = TRUE
    /\ session_event' = "start_conversation"
    /\ UNCHANGED <<conversation_ended, session_intent_detection, conversation_outcome,
                   session_total_tokens, session_config, session_assess_calls,
                   session_sales_calls, detect_intent_calls, session_assessed>>
    /\ UNCHANGED <<conversation_vars, extractor_vars, batch_vars, assessor_vars, persist_vars>>

\* detect_intent(): the intent request after history_so_far, answered by raw.
DetectIntent(history_so_far, total, raw) ==
    LET r == call_llm(raw)
    IN /\ session_total_tokens' = total + r.tokens
       /\ session_intent_detection' = extract_intent_detection(r.content)
       /\ detect_intent_calls' = detect_intent_calls + 1

\* The chat input: send_message(user_input).
SendMessage ==
    /\ conversation_started
    /\ AcceptsInput
    /\ \E user_input \in UserInputs :
         IF StripIsEmpty(user_input)
         THEN /\ session_event' = "send_message_ignored"
              /\ UNCHANGED <<session_messages, session_sales_history, conversation_ended,
                             session_intent_detection, conversation_outcome,
                             session_total_tokens, session_assess_calls,
                             session_sales_calls, detect_intent_calls, session_assessed>>
         ELSE \E raw \in AssessAnswers :
                LET a == assess_conversation_status(raw)
                    with_user == Append(session_messages,
                                        [role |-> "user", content |-> user_input])
                    history_with_user == Append(session_sales_history,
                                                [role |-> "user", content |-> user_input])
                IN /\ session_event' = "send_message"
                   /\ session_assess_calls' = session_assess_calls + 1
                   /\ session_assessed' = a
                   /\ IF Terminates(a.should_end, a.outcome)
                      THEN /\ conversation_ended' = TRUE
                           /\ conversation_outcome' = a.outcome
                           /\ session_messages' = with_user
                           /\ session_sales_history' = history_with_user
                           /\ \E answer \in IntentAnswers :
                                DetectIntent(history_with_user, session_total_tokens, answer)
                           /\ UNCHANGED session_sales_calls
                      ELSE IF SessionAtLimit(NumExchanges(with_user))
                      THEN /\ conversation_ended' = TRUE
                           /\ conversation_outcome' = REACHED_MESSAGE_LIMIT
                           /\ session_messages' = with_user
                           /\ session_sales_history' = history_with_user
                           /\ \E answer \in IntentAnswers :
                                DetectIntent(history_with_user, session_total_tokens, answer)
                           /\ UNCHANGED session_sales_calls
                      ELSE \E answer \in SessionSalesAnswers :
                             LET r == call_llm(answer)
                             IN /\ session_total_tokens' = session_total_tokens + r.tokens
                                /\ session_messages' =
                                     Append(with_user, [role |-> "sales", content |-> r.content])
                                /\ session_sales_history' =
                                     Append(history_with_user,
                                            [role |-> "assistant", content |-> r.content])
                                /\ session_sales_calls' = session_sales_calls + 1
                                /\ UNCHANGED <<conversation_ended, conversation_outcome,
                                               session_intent_detection, detect_intent_calls>>
    /\ UNCHANGED <<conversation_started, session_config>>
    /\ UNCHANGED <<conversation_vars, extractor_vars, batch_vars, assessor_vars, persist_vars>>

\* The New Conversation button: reset_conversation().
ResetConversation ==
    /\ conversation_started
    /\ conversation_ended
    /\ session_messages' = <<>>
    /\ session_sales_history' = <<>>
    /\ conversation_started' = FALSE
    /\ conversation_ended' = FALSE
    /\ session_intent_detection' = NoDetection
    /\ conversation_outcome' = None
    /\ session_total_tokens' = 0
    /\ session_config' = SessionMaxMessageExchanges
    /\ session_event' = "reset_conversation"
    /\ session_assess_calls' = 0
    /\ session_sales_calls' = 0
    /\ detect_intent_calls' = 0
    /\ session_assessed' = AssessDefault
    /\ UNCHANGED <<conversation_vars, extractor_vars, batch_vars, assessor_vars, persist_vars>>

SessionNext ==
    \/ StartConversation
    \/ SendMessage
    \/ ResetConversation

SpecSession == SessionInit /\ [][SessionNext]_vars

---------------------------------------------------------------------------
(* Properties of the human chat session *)

\* C35: the number of user messages never exceeds
\* config.max_message_exchanges; every user message is assessed exactly once,
\* before any sales reply to it; when the assessment terminates or the number
\* of user messages reaches the limit, the conversation is marked ended with
\* the assessed outcome, or reached_message_limit for the limit, and no sales
\* reply is requested for that last user message.
C35_UserMessagesWithinLimit ==
    /\ [](NumExchanges(session_messages) <= session_config)
    /\ [](session_assess_calls = NumExchanges(session_messages))
    /\ [](conversation_started
          => session_sales_calls + 1 = Len(session_messages) - NumExchanges(session_messages))
    /\ [](conversation_ended
          => (/\ session_messages[Len(session_messages)].role = "user"
              /\ conversation_outcome =
                   IF Terminates(session_assessed.should_end, session_assessed.outcome)
                   THEN session_assessed.outcome ELSE REACHED_MESSAGE_LIMIT
              /\ conversation_outcome = REACHED_MESSAGE_LIMIT
                   => NumExchanges(session_messages) = session_config))
    /\ [][NumExchanges(session_messages') = NumExchanges(session_messages) + 1
          => (/\ session_assess_calls' = session_assess_calls + 1
              /\ (\/ Terminates(session_assessed'.should_end, session_assessed'.outcome)
                  \/ NumExchanges(session_messages') >= session_config)
                   <=> conversation_ended'
              /\ conversation_ended' <=> (session_sales_calls' = session_sales_calls)
              /\ ~conversation_ended' <=> (session_sales_calls' = session_sales_calls + 1))]_vars

C35_Witness ==
    /\ conversation_ended
    /\ conversation_outcome = REACHED_MESSAGE_LIMIT
    /\ NumExchanges(session_messages) = SessionMaxMessageExchanges
    /\ session_sales_calls = SessionMaxMessageExchanges - 1
    /\ session_assess_calls = SessionMaxMessageExchanges

\* The step is reset_conversation.
IsReset == session_event' = "reset_conversation"

\* C36: between resets conversation_ended turns true at most once; the
\* outcome is set at that step and at no other; once ended no user message
\* is taken and nothing of the conversation changes until the reset;
\* detect_intent is called once at the ending step, on the assessor path and
\* on the limit path, and not again; reset_conversation restores the initial
\* state.
C36_EndsOnceOutcomeFixed ==
    /\ [][(conversation_ended /\ ~IsReset)
          => (/\ conversation_ended'
              /\ conversation_outcome' = conversation_outcome
              /\ session_messages' = session_messages
              /\ session_intent_detection' = session_intent_detection
              /\ detect_intent_calls' = detect_intent_calls)]_vars
    /\ [][(~conversation_ended /\ conversation_ended')
          => (/\ conversation_outcome = None
              /\ conversation_outcome' \in ConversationOutcome
              /\ detect_intent_calls = 0
              /\ detect_intent_calls' = 1)]_vars
    /\ [][(conversation_outcome' # conversation_outcome)
          => ((~conversation_ended /\ conversation_ended') \/ IsReset)]_vars
    /\ [](conversation_ended <=> conversation_outcome # None)
    /\ [](detect_intent_calls = IF conversation_ended THEN 1 ELSE 0)
    /\ [][IsReset
          => (/\ conversation_ended
              /\ ~conversation_ended'
              /\ ~conversation_started'
              /\ conversation_outcome' = None
              /\ session_messages' = <<>>
              /\ session_intent_detection' = NoDetection
              /\ session_total_tokens' = 0
              /\ detect_intent_calls' = 0)]_vars

C36_Witness ==
    /\ conversation_ended
    /\ conversation_outcome = AGREED_FREE_CLASS
    /\ NumExchanges(session_messages) = 2
    /\ detect_intent_calls = 1
    /\ session_intent_detection # NoDetection

====
